---------------------------- MODULE Spec2Model ----------------------------
(***************************************************************************)
(* Model of the F5 VirtualServer source of external-dns                    *)
(* (source/f5_virtualserver.go): construction of the source, the           *)
(* Endpoints pipeline (list, convert, filter by annotations, synthesize,   *)
(* sort) and the relay of informer events to registered handlers.          *)
(*                                                                         *)
(* Strings the code inspects (addresses, annotation values, the filter     *)
(* expression) are sequences of one-character strings, so that lower-      *)
(* casing, splitting and ordering are computed, not assumed.               *)
(***************************************************************************)
EXTENDS Naturals, Sequences, FiniteSets

VARIABLES
    annotationFilter,   \* the annotationFilter argument / field of the source
    pc,                 \* position of NewF5VirtualServerSource: new, waiting, ready, failed
    ctxDone,            \* the caller's context has been canceled
    synced,             \* the informer has observed its initial listing
    cache,              \* the informer's store: slot -> object or Absent
    handlers,           \* the informer's registered event handlers, in registration order
    events,             \* number of add/update/delete events the cache has observed
    last                \* the last Endpoints call: its inputs, stages and result

vars == <<annotationFilter, pc, ctxDone, synced, cache, handlers, events, last>>

-----------------------------------------------------------------------------
(* Bounds of the model. *)

MaxObjects == 2
MaxHandlers == 2
MaxEvents == 2

-----------------------------------------------------------------------------
(* Strings. *)

\* The characters the model uses, in byte order.
Chars ==
    <<" ", ",", "-", ".", "/", "0", "1", "2", "3", "4", "5", "6", "7", "8", "9",
      "=", "E", "N", "O", "a", "b", "c", "d", "e", "g", "h", "i", "k", "l", "m",
      "n", "o", "p", "r", "s", "t", "u", "v", "x">>

Ord(c) == CHOOSE i \in 1..Len(Chars) : Chars[i] = c

UpperCase == <<"E", "N", "O">>
LowerCase == <<"e", "n", "o">>

\* strings.ToLower, one character
ToLowerChar(c) ==
    IF \E i \in 1..Len(UpperCase) : UpperCase[i] = c
    THEN LowerCase[CHOOSE i \in 1..Len(UpperCase) : UpperCase[i] = c]
    ELSE c

\* strings.ToLower
ToLower(s) == [i \in 1..Len(s) |-> ToLowerChar(s[i])]

\* Go's < on strings: byte-wise lexicographic
RECURSIVE StrLess(_, _)
StrLess(a, b) ==
    IF b = <<>> THEN FALSE
    ELSE IF a = <<>> THEN TRUE
    ELSE IF a[1] # b[1] THEN Ord(a[1]) < Ord(b[1])
    ELSE StrLess(Tail(a), Tail(b))

\* strings.Split(s, sep) for a one-character separator
RECURSIVE SplitFrom(_, _, _)
SplitFrom(s, sep, cur) ==
    IF s = <<>> THEN <<cur>>
    ELSE IF s[1] = sep THEN <<cur>> \o SplitFrom(Tail(s), sep, <<>>)
    ELSE SplitFrom(Tail(s), sep, Append(cur, s[1]))

Split(s, sep) == SplitFrom(s, sep, <<>>)

\* strings.TrimSuffix(s, ".")
TrimSuffixDot(s) ==
    IF Len(s) > 0 /\ s[Len(s)] = "." THEN SubSeq(s, 1, Len(s) - 1) ELSE s

Range(s) == {s[i] : i \in 1..Len(s)}


-----------------------------------------------------------------------------
(* String values of the model. *)

EmptyStr == <<>>
StrNoneLower == <<"n", "o", "n", "e">>
StrNoneTitle == <<"N", "o", "n", "e">>
StrNoneUpper == <<"N", "O", "N", "E">>
Addr10 == <<"1", "0", ".", "0", ".", "0", ".", "5">>
Addr9 == <<"9", ".", "9", ".", "9", ".", "9">>
Addr1 == <<"1", ".", "2", ".", "3", ".", "4">>
Addr5 == <<"5", ".", "6", ".", "7", ".", "8">>
TargetList == <<"5", ".", "6", ".", "7", ".", "8", ",", "1", ".", "2", ".", "3", ".", "4">>
HostA == <<"a", ".", "e", "x", "a", "m", "p", "l", "e", ".", "c", "o", "m">>
ValProd == <<"p", "r", "o", "d">>
ValDev == <<"d", "e", "v">>

\* annotation keys
EnvKey == <<"e", "n", "v", "i", "r", "o", "n", "m", "e", "n", "t">>
TargetKey ==
    <<"e", "x", "t", "e", "r", "n", "a", "l", "-", "d", "n", "s", ".",
      "a", "l", "p", "h", "a", ".", "k", "u", "b", "e", "r", "n", "e", "t", "e", "s",
      ".", "i", "o", "/", "t", "a", "r", "g", "e", "t">>
TTLKey ==
    <<"e", "x", "t", "e", "r", "n", "a", "l", "-", "d", "n", "s", ".",
      "a", "l", "p", "h", "a", ".", "k", "u", "b", "e", "r", "n", "e", "t", "e", "s",
      ".", "i", "o", "/", "t", "t", "l">>

\* filter expressions: none, "environment=prod", and the malformed "=prod"
FilterEmpty == <<>>
FilterEnvProd ==
    <<"e", "n", "v", "i", "r", "o", "n", "m", "e", "n", "t", "=", "p", "r", "o", "d">>
FilterMalformed == <<"=", "p", "r", "o", "d">>
FilterExprs == {FilterEmpty, FilterEnvProd, FilterMalformed}

-----------------------------------------------------------------------------
(* Cached objects. An optional value is a sequence of length 0 or 1. *)

Namespace == "default"
ObjName(k) == <<"vs", k>>

\* An annotation map with the given optional target and environment values.
Annotations(target, env) ==
    [key \in {kk \in {TargetKey, EnvKey} :
                 (kk = TargetKey /\ target # <<>>) \/ (kk = EnvKey /\ env # <<>>)}
        |-> IF key = TargetKey THEN target[1] ELSE env[1]]

\* A cached *unstructured.Unstructured that holds a VirtualServer.
VirtualServerObj(k, target, env, host, specAddr, statusAddr) ==
    [kind |-> "Unstructured", namespace |-> Namespace, name |-> ObjName(k),
     annotations |-> Annotations(target, env), host |-> host,
     specAddress |-> specAddr, statusAddress |-> statusAddr]

\* A cached object that is not an *unstructured.Unstructured ("Other"), or one
\* whose content the scheme cannot convert to a VirtualServer ("BadSchema").
BadObj(k, kind) ==
    [kind |-> kind, namespace |-> Namespace, name |-> ObjName(k),
     annotations |-> Annotations(<<>>, <<>>), host |-> EmptyStr,
     specAddress |-> EmptyStr, statusAddress |-> EmptyStr]

StatusAddrs == {EmptyStr, StrNoneLower, StrNoneTitle, StrNoneUpper, Addr10}
SpecAddrs == {EmptyStr, Addr9}
Hosts == {HostA, EmptyStr}
TargetAnns == {<<>>, <<TargetList>>}
EnvAnns == {<<>>, <<ValProd>>, <<ValDev>>}

\* Every object of the model for slot k.
AllObjects(k) ==
    {VirtualServerObj(k, t, e, h, sp, st) :
        t \in TargetAnns, e \in EnvAnns, h \in Hosts, sp \in SpecAddrs, st \in StatusAddrs}
    \cup {BadObj(k, "Other"), BadObj(k, "BadSchema")}

\* The objects that accompany the object of slot 1 in the other slots.
Companions(k) ==
    { VirtualServerObj(k, <<>>, <<ValProd>>, HostA, EmptyStr, Addr10),
      VirtualServerObj(k, <<>>, <<ValDev>>, HostA, Addr9, StrNoneTitle),
      VirtualServerObj(k, <<TargetList>>, <<>>, HostA, Addr9, Addr10),
      VirtualServerObj(k, <<>>, <<>>, HostA, EmptyStr, EmptyStr),
      BadObj(k, "Other"), BadObj(k, "BadSchema") }

ObjectsFor(k) == IF k = 1 THEN AllObjects(k) ELSE Companions(k)

Slots == 1..MaxObjects

\* The objects present in a store, in slot order.
RECURSIVE StoredFrom(_, _)
StoredFrom(store, k) ==
    IF k > Len(store) THEN <<>> ELSE store[k] \o StoredFrom(store, k + 1)

Stored(store) == StoredFrom(store, 1)

\* Every order of the elements of a sequence without repeated elements.
RECURSIVE Orders(_)
Orders(S) ==
    IF S = {} THEN {<<>>}
    ELSE UNION {{<<x>> \o rest : rest \in Orders(S \ {x})} : x \in S}

\* Lister().ByNamespace(ns).List(labels.Everything()): the store iterates a map,
\* so the objects come in any order.
ListResults(store) == Orders(Range(Stored(store)))

-----------------------------------------------------------------------------
(* Helpers of the repository that the source file calls. *)

\* annotations.ParseFilter, for the expressions of FilterExprs: the empty
\* expression gives the empty selector, "key=value" one equality requirement,
\* and an expression without a key is a syntax error.
ParseFilter(expr) ==
    LET parts == Split(expr, "=") IN
    IF expr = <<>> THEN [err |-> FALSE, requirements |-> <<>>]
    ELSE IF Len(parts) = 2 /\ parts[1] # <<>>
         THEN [err |-> FALSE,
               requirements |-> <<[key |-> parts[1], value |-> parts[2]]>>]
         ELSE [err |-> TRUE, requirements |-> <<>>]

\* labels.Selector.Empty
SelectorEmpty(selector) == selector.requirements = <<>>

\* labels.Selector.Matches(labels.Set(annotations))
SelectorMatches(selector, annotations) ==
    \A i \in 1..Len(selector.requirements) :
        LET r == selector.requirements[i] IN
        r.key \in DOMAIN annotations /\ annotations[r.key] = r.value

\* strings.ReplaceAll(s, " ", "")
RemoveSpaces(s) == SelectSeq(s, LAMBDA c : c # " ")

\* annotations.TargetsFromTargetAnnotation: the comma-separated values of the
\* target annotation, spaces removed, each without its trailing dot; no targets
\* when the annotation is absent or empty.
TargetsFromTargetAnnotation(annotations) ==
    IF TargetKey \in DOMAIN annotations /\ annotations[TargetKey] # <<>>
    THEN LET parts == Split(RemoveSpaces(annotations[TargetKey]), ",")
         IN  [i \in 1..Len(parts) |-> TrimSuffixDot(parts[i])]
    ELSE <<>>

Digits == <<"0", "1", "2", "3", "4", "5", "6", "7", "8", "9">>

\* The number a string of decimal digits denotes.
RECURSIVE ParseNat(_, _)
ParseNat(s, acc) ==
    IF s = <<>> THEN acc
    ELSE ParseNat(Tail(s), acc * 10 + (CHOOSE d \in 0..9 : Digits[d + 1] = s[1]))

\* annotations.TTLFromAnnotations: the seconds the TTL annotation states, and 0
\* (TTL not configured, "use the provider default") when the annotation is
\* absent or is not a number.
TTLFromAnnotations(annotations, resource) ==
    IF TTLKey \in DOMAIN annotations
       /\ annotations[TTLKey] # <<>>
       /\ \A i \in 1..Len(annotations[TTLKey]) : annotations[TTLKey][i] \in Range(Digits)
    THEN ParseNat(annotations[TTLKey], 0)
    ELSE 0

\* EndpointsForHostname(hostname, targets, ttl, nil, "", resource): one record
\* for the host with the targets attached, none when there are no targets.
\* Every address of the model is an IPv4 address, so the targets stay together
\* in one record.
EndpointsForHostname(hostname, targets, ttl, resource) ==
    IF Len(targets) = 0 THEN <<>>
    ELSE <<[dnsName |-> hostname, targets |-> targets, recordTTL |-> ttl,
            resource |-> resource]>>

\* Targets.Less: the order sort.Sort(ep.Targets) sorts by
TargetLess(a, b) == StrLess(a, b)

\* sort.Sort on a Targets value
RECURSIVE Insert(_, _)
Insert(x, sorted) ==
    IF sorted = <<>> THEN <<x>>
    ELSE IF TargetLess(sorted[1], x) THEN <<sorted[1]>> \o Insert(x, Tail(sorted))
    ELSE <<x>> \o sorted

RECURSIVE SortTargets(_)
SortTargets(targets) ==
    IF targets = <<>> THEN <<>> ELSE Insert(targets[1], SortTargets(Tail(targets)))

-----------------------------------------------------------------------------
(* The Endpoints pipeline of source/f5_virtualserver.go. *)

\* fmt.Sprintf("f5-virtualserver/%s/%s", namespace, name)
Resource(vs) == <<"f5-virtualserver", vs.namespace, vs.name>>

\* The typed f5.VirtualServer that scheme.Convert fills from an Unstructured.
Convert(obj) ==
    [namespace |-> obj.namespace, name |-> obj.name, annotations |-> obj.annotations,
     host |-> obj.host, specAddress |-> obj.specAddress,
     statusAddress |-> obj.statusAddress]

\* As ConvertAll, skipping the objects that cannot be converted.
RECURSIVE ConvertAll_SkipsFailures(_)
ConvertAll_SkipsFailures(objs) ==
    IF objs = <<>> THEN [err |-> "none", virtualServers |-> <<>>]
    ELSE LET rest == ConvertAll_SkipsFailures(Tail(objs)) IN
         IF objs[1].kind # "Unstructured" THEN rest
         ELSE [err |-> "none",
               virtualServers |-> <<Convert(objs[1])>> \o rest.virtualServers]

\* The conversion loop of Endpoints: the first object that is not an
\* Unstructured, or that the scheme cannot convert, ends the call with an error.
RECURSIVE ConvertAll(_)
ConvertAll(objs) ==
    IF objs = <<>> THEN [err |-> "none", virtualServers |-> <<>>]
    ELSE IF objs[1].kind = "Other"
         THEN [err |-> "could not convert", virtualServers |-> <<>>]
    ELSE IF objs[1].kind = "BadSchema"
         THEN [err |-> "conversion", virtualServers |-> <<>>]
    ELSE LET rest == ConvertAll(Tail(objs)) IN
         IF rest.err # "none" THEN rest
         ELSE [err |-> "none",
               virtualServers |-> <<Convert(objs[1])>> \o rest.virtualServers]

\* As filterByAnnotations, matching the selector against the objects' labels
\* (none in the model) instead of their annotations.
filterByAnnotations_MatchesLabels(filter, virtualServers) ==
    LET selector == ParseFilter(filter) IN
    IF selector.err THEN [err |-> "filter", list |-> <<>>]
    ELSE IF SelectorEmpty(selector) THEN [err |-> "none", list |-> virtualServers]
    ELSE [err |-> "none",
          list |-> SelectSeq(virtualServers,
                             LAMBDA v : SelectorMatches(selector, <<>>))]

\* filterByAnnotations: parses the filter on every call.
filterByAnnotations(filter, virtualServers) ==
    LET selector == ParseFilter(filter) IN
    IF selector.err THEN [err |-> "filter", list |-> <<>>]
    ELSE IF SelectorEmpty(selector) THEN [err |-> "none", list |-> virtualServers]
    ELSE [err |-> "none",
          list |-> SelectSeq(virtualServers,
                             LAMBDA v : SelectorMatches(selector, v.annotations))]

\* As hasValidVirtualServerIP, comparing the address without lower-casing it.
hasValidVirtualServerIP_CaseSensitive(vs) ==
    vs.statusAddress # StrNoneLower /\ vs.statusAddress # EmptyStr

\* As hasValidVirtualServerIP, without the test for the empty address.
hasValidVirtualServerIP_NoneOnly(vs) ==
    ToLower(vs.statusAddress) # StrNoneLower

hasValidVirtualServerIP(vs) ==
    LET normalizedAddress == ToLower(vs.statusAddress) IN
    normalizedAddress # StrNoneLower /\ normalizedAddress # EmptyStr

\* As ResolveTargets, appending the spec address whatever the annotation gave.
ResolveTargets_Merged(vs) ==
    LET fromAnnotation == TargetsFromTargetAnnotation(vs.annotations)
        withSpec ==
            IF vs.specAddress # EmptyStr
            THEN Append(fromAnnotation, vs.specAddress) ELSE fromAnnotation
    IN  IF Len(withSpec) = 0 /\ vs.statusAddress # EmptyStr
        THEN Append(withSpec, vs.statusAddress) ELSE withSpec

\* The targets of one VirtualServer: the target annotation, else the spec
\* address, else the status address.
ResolveTargets(vs) ==
    LET fromAnnotation == TargetsFromTargetAnnotation(vs.annotations)
        withSpec ==
            IF Len(fromAnnotation) = 0 /\ vs.specAddress # EmptyStr
            THEN Append(fromAnnotation, vs.specAddress) ELSE fromAnnotation
    IN  IF Len(withSpec) = 0 /\ vs.statusAddress # EmptyStr
        THEN Append(withSpec, vs.statusAddress) ELSE withSpec

\* The arguments endpointsFromVirtualServers passes to EndpointsForHostname,
\* one entry per VirtualServer that passes hasValidVirtualServerIP.
RECURSIVE BuildCalls(_)
BuildCalls(virtualServers) ==
    IF virtualServers = <<>> THEN <<>>
    ELSE LET vs == virtualServers[1]
             resource == Resource(vs)
         IN  IF ~hasValidVirtualServerIP(vs) THEN BuildCalls(Tail(virtualServers))
             ELSE <<[hostname |-> vs.host, targets |-> ResolveTargets(vs),
                     ttl |-> TTLFromAnnotations(vs.annotations, resource),
                     resource |-> resource]>>
                  \o BuildCalls(Tail(virtualServers))

RECURSIVE EndpointsOfCalls(_)
EndpointsOfCalls(calls) ==
    IF calls = <<>> THEN <<>>
    ELSE EndpointsForHostname(calls[1].hostname, calls[1].targets, calls[1].ttl,
                              calls[1].resource)
         \o EndpointsOfCalls(Tail(calls))

endpointsFromVirtualServers(virtualServers) ==
    EndpointsOfCalls(BuildCalls(virtualServers))

\* As SortEndpoints, leaving the targets in the order they were resolved in.
SortEndpoints_Unsorted(endpoints) == endpoints

\* "Sort endpoints": the targets of every endpoint are sorted.
SortEndpoints(endpoints) ==
    [i \in 1..Len(endpoints) |->
        [endpoints[i] EXCEPT !.targets = SortTargets(endpoints[i].targets)]]

NoCall ==
    [called |-> FALSE, listErr |-> FALSE, snapshot |-> <<>>, converted |-> <<>>,
     filtered |-> <<>>, built |-> <<>>, endpoints |-> <<>>, err |-> "none"]

\* One call of Endpoints on the source with the given filter, where the lister
\* fails (listErr) or returns snapshot: the stages it went through, the
\* endpoints and the error it returns.
EndpointsCall(filter, listErr, snapshot) ==
    LET conv == ConvertAll(snapshot)
        filt == filterByAnnotations(filter, conv.virtualServers)
        base == [NoCall EXCEPT !.called = TRUE, !.listErr = listErr]
    IN  IF listErr THEN [base EXCEPT !.err = "list"]
        ELSE IF conv.err # "none"
             THEN [base EXCEPT !.snapshot = snapshot, !.err = conv.err]
        ELSE IF filt.err # "none"
             THEN [base EXCEPT !.snapshot = snapshot, !.converted = conv.virtualServers,
                               !.err = "failed to filter VirtualServers"]
        ELSE [base EXCEPT !.snapshot = snapshot, !.converted = conv.virtualServers,
                          !.filtered = filt.list,
                          !.built = BuildCalls(filt.list),
                          !.endpoints =
                              SortEndpoints(endpointsFromVirtualServers(filt.list))]

-----------------------------------------------------------------------------
(* The informer's event handlers. *)

EventKinds == {"add", "update", "delete"}

\* cache.ResourceEventHandlerFuncs{AddFunc: func(obj interface{}) {}}: the
\* handler the constructor installs; its AddFunc has an empty body, so no event
\* runs a callback.
ConstructorHandler == [origin |-> "constructor", calls |-> {}]

\* eventHandlerFunc(handler): OnAdd, OnUpdate and OnDelete all run the callback.
eventHandlerFunc == [origin |-> "AddEventHandler", calls |-> EventKinds]

\* The informer's listener for a handler added when the store holds `stored`
\* objects and `seen` events have been observed: the objects already stored are
\* notified to it as adds.
Listener(handler, stored, seen) ==
    [origin |-> handler.origin, calls |-> handler.calls,
     pending |-> IF "add" \in handler.calls THEN stored ELSE 0,
     invoked |-> 0, replayed |-> stored, regAt |-> seen]

\* The informer distributes one event to every listener.
Distribute(listeners, kind) ==
    [i \in 1..Len(listeners) |->
        IF kind \in listeners[i].calls
        THEN [listeners[i] EXCEPT !.pending = @ + 1]
        ELSE listeners[i]]

\* As AddEventHandlerTo, registering the callback as an AddFunc only, the way
\* the constructor registers its handler.
AddEventHandlerTo_AddOnly(listeners, stored, seen) ==
    Append(listeners,
           Listener([origin |-> "AddEventHandler", calls |-> {"add"}], stored, seen))

\* vs.virtualServerInformer.Informer().AddEventHandler(eventHandlerFunc(handler))
AddEventHandlerTo(listeners, stored, seen) ==
    Append(listeners, Listener(eventHandlerFunc, stored, seen))

-----------------------------------------------------------------------------
(* Construction: NewF5VirtualServerSource. *)

\* informers.WaitForDynamicCacheSync(context.Background(), informerFactory):
\* succeeds once the informer has synced, and fails when its own deadline
\* passes first. The caller's context is not the one it waits on.
WaitForDynamicCacheSync(isSynced) ==
    IF isSynced THEN {"ok", "timeout"} ELSE {"timeout"}

\* As ConstructResult, dropping the error of the wait.
ConstructResult_IgnoresSyncError(waitResult, converterOk) ==
    IF ~converterOk THEN "converterFailed" ELSE "ready"

\* What NewF5VirtualServerSource returns after the wait: the wait's error, the
\* converter's error, or the source. The annotation filter is stored unparsed.
ConstructResult(waitResult, converterOk) ==
    IF waitResult # "ok" THEN "syncFailed"
    ELSE IF ~converterOk THEN "converterFailed"
    ELSE "ready"

\* The small objects of the construction and relay specifications.
SmallObjects(k) ==
    { VirtualServerObj(k, <<>>, <<ValProd>>, HostA, EmptyStr, Addr10),
      VirtualServerObj(k, <<>>, <<ValDev>>, HostA, Addr9, StrNoneTitle) }

\* Every store whose slot k holds nothing or one object: of SmallObjects(k)
\* when small, else of ObjectsFor(k).
RECURSIVE StoresFrom(_, _)
StoresFrom(k, small) ==
    IF k > MaxObjects THEN {<<>>}
    ELSE {<<slot>> \o rest :
             slot \in {<<>>} \cup {<<o>> : o \in IF small THEN SmallObjects(k)
                                                 ELSE ObjectsFor(k)},
             rest \in StoresFrom(k + 1, small)}

SmallStores == StoresFrom(1, TRUE)

EmptyStore == [k \in Slots |-> <<>>]

Init ==
    /\ annotationFilter \in FilterExprs
    /\ pc = "new"
    /\ ctxDone = FALSE
    /\ synced = FALSE
    /\ cache = EmptyStore
    /\ handlers = <<>>
    /\ events = 0
    /\ last = NoCall

\* Lines 68-78: the informer is created, the constructor's handler is added and
\* the factory is started with the caller's ctx.Done().
ConstructStart ==
    /\ pc = "new"
    /\ pc' = "waiting"
    /\ handlers' = Append(handlers, Listener(ConstructorHandler, 0, events))
    /\ UNCHANGED <<annotationFilter, ctxDone, synced, cache, events, last>>

\* The started informer observes its initial listing, unless the caller's
\* context stopped it first.
InformerSync ==
    /\ pc # "new"
    /\ ~ctxDone
    /\ ~synced
    /\ \E store \in SmallStores : cache' = store
    /\ synced' = TRUE
    /\ UNCHANGED <<annotationFilter, pc, ctxDone, handlers, events, last>>

\* The caller cancels its context (or its deadline passes).
CtxCancel ==
    /\ ~ctxDone
    /\ ctxDone' = TRUE
    /\ UNCHANGED <<annotationFilter, pc, synced, cache, handlers, events, last>>

\* Lines 80-98: the wait ends and the constructor returns.
ConstructReturn ==
    /\ pc = "waiting"
    /\ \E waitResult \in WaitForDynamicCacheSync(synced), converterOk \in BOOLEAN :
           pc' = ConstructResult(waitResult, converterOk)
    /\ UNCHANGED <<annotationFilter, ctxDone, synced, cache, handlers, events, last>>

\* Endpoints on a constructed source.
Endpoints ==
    /\ pc = "ready"
    /\ \E listErr \in BOOLEAN, snapshot \in ListResults(cache) :
           last' = EndpointsCall(annotationFilter, listErr, snapshot)
    /\ UNCHANGED <<annotationFilter, pc, ctxDone, synced, cache, handlers, events>>

Next == ConstructStart \/ InformerSync \/ CtxCancel \/ ConstructReturn \/ Endpoints

\* WaitForDynamicCacheSync waits under a deadline, so the constructor returns.
Spec == Init /\ [][Next]_vars /\ WF_vars(ConstructReturn)

-----------------------------------------------------------------------------
(* The Endpoints pipeline on a constructed source, over every store. *)

Stores == StoresFrom(1, FALSE)

InitPipeline ==
    /\ annotationFilter \in FilterExprs
    /\ pc = "ready"
    /\ ctxDone = FALSE
    /\ synced = TRUE
    /\ cache \in Stores
    /\ handlers = <<Listener(ConstructorHandler, 0, 0)>>
    /\ events = 0
    /\ last = NoCall

NextPipeline == Endpoints

SpecPipeline == InitPipeline /\ [][NextPipeline]_vars

-----------------------------------------------------------------------------
(* The event relay on a constructed source. *)

\* The stores the relay starts from: at most the first slot is filled.
RelayStores == {st \in SmallStores : \A k \in Slots : k > 1 => st[k] = <<>>}

InitRelay ==
    /\ annotationFilter = FilterEmpty
    /\ pc = "ready"
    /\ ctxDone = FALSE
    /\ synced = TRUE
    /\ cache \in RelayStores
    /\ handlers = <<Listener(ConstructorHandler, 0, 0)>>
    /\ events = 0
    /\ last = NoCall

\* AddEventHandler(ctx, handler) on a constructed source.
AddEventHandler ==
    /\ pc = "ready"
    /\ Len(handlers) <= MaxHandlers
    /\ handlers' = AddEventHandlerTo(handlers, Len(Stored(cache)), events)
    /\ UNCHANGED <<annotationFilter, pc, ctxDone, synced, cache, events, last>>

\* The running informer observes the addition of an object.
InformerAdd ==
    /\ synced /\ ~ctxDone /\ events < MaxEvents
    /\ \E k \in Slots : \E o \in SmallObjects(k) :
           /\ cache[k] = <<>>
           /\ cache' = [cache EXCEPT ![k] = <<o>>]
    /\ handlers' = Distribute(handlers, "add")
    /\ events' = events + 1
    /\ UNCHANGED <<annotationFilter, pc, ctxDone, synced, last>>

\* The running informer observes the update of a stored object.
InformerUpdate ==
    /\ synced /\ ~ctxDone /\ events < MaxEvents
    /\ \E k \in Slots : \E o \in SmallObjects(k) :
           /\ cache[k] # <<>>
           /\ cache[k] # <<o>>
           /\ cache' = [cache EXCEPT ![k] = <<o>>]
    /\ handlers' = Distribute(handlers, "update")
    /\ events' = events + 1
    /\ UNCHANGED <<annotationFilter, pc, ctxDone, synced, last>>

\* The running informer observes the deletion of a stored object.
InformerDelete ==
    /\ synced /\ ~ctxDone /\ events < MaxEvents
    /\ \E k \in Slots :
           /\ cache[k] # <<>>
           /\ cache' = [cache EXCEPT ![k] = <<>>]
    /\ handlers' = Distribute(handlers, "delete")
    /\ events' = events + 1
    /\ UNCHANGED <<annotationFilter, pc, ctxDone, synced, last>>

\* A listener hands its next pending notification to its handler, which runs
\* the callback.
Deliver(i) ==
    /\ handlers[i].pending > 0
    /\ handlers' = [handlers EXCEPT ![i].pending = @ - 1, ![i].invoked = @ + 1]
    /\ UNCHANGED <<annotationFilter, pc, ctxDone, synced, cache, events, last>>

DeliverSome == \E i \in 1..Len(handlers) : Deliver(i)

NextRelay ==
    AddEventHandler \/ InformerAdd \/ InformerUpdate \/ InformerDelete \/ DeliverSome

\* Every listener runs in its own goroutine: a pending notification is
\* eventually delivered.
SpecRelay ==
    InitRelay /\ [][NextRelay]_vars
    /\ \A i \in 1..(MaxHandlers + 1) : WF_vars(i <= Len(handlers) /\ Deliver(i))

-----------------------------------------------------------------------------
(* Properties. *)

\* The validity gate as the specification states it.
FailsValidityGate(o) == ToLower(o.statusAddress) \in {EmptyStr, StrNoneLower}

Convertible(o) == o.kind = "Unstructured"

RecordsFor(o) ==
    {j \in 1..Len(last.endpoints) : last.endpoints[j].resource = Resource(o)}

FilterWellFormed == ~ParseFilter(annotationFilter).err

MatchesFilter(v) == SelectorMatches(ParseFilter(annotationFilter), v.annotations)

\* C1: an object whose lower-cased status address is empty or "none" gets no
\* record, whatever its other fields and the other objects are, and does not
\* make the call fail: a call whose listing succeeded, whose objects all
\* convert and whose filter parses returns no error.
C1_ValidityGate ==
    last.called =>
        \A i \in 1..Len(last.snapshot) :
            LET o == last.snapshot[i] IN
            (Convertible(o) /\ FailsValidityGate(o)) =>
                /\ RecordsFor(o) = {}
                /\ ((\A n \in 1..Len(last.snapshot) : Convertible(last.snapshot[n]))
                    /\ FilterWellFormed) => last.err = "none"

\* A successful call over an object that fails the gate in upper case, with a
\* spec address and a target annotation, beside an object that got a record.
C1_Witness ==
    /\ last.called /\ last.err = "none" /\ Len(last.endpoints) >= 1
    /\ \E i \in 1..Len(last.snapshot) :
           /\ last.snapshot[i].statusAddress = StrNoneUpper
           /\ last.snapshot[i].specAddress = Addr9
           /\ TargetKey \in DOMAIN last.snapshot[i].annotations

\* C2: every filtered object that passes the gate has exactly one record, whose
\* targets are exactly the values of the target annotation when it yields any,
\* else exactly the spec address when it is not empty, else exactly the status
\* address; never values of two of these.
C2_TargetPrecedence ==
    (last.called /\ last.err = "none") =>
        \A i \in 1..Len(last.filtered) :
            LET v == last.filtered[i]
                override == TargetsFromTargetAnnotation(v.annotations)
            IN  ~FailsValidityGate(v) =>
                    /\ Cardinality(RecordsFor(v)) = 1
                    /\ \A j \in RecordsFor(v) :
                           LET targets == last.endpoints[j].targets IN
                           IF Len(override) >= 1
                           THEN /\ Range(targets) = Range(override)
                                /\ Len(targets) = Len(override)
                           ELSE IF v.specAddress # EmptyStr
                           THEN targets = <<v.specAddress>>
                           ELSE targets = <<v.statusAddress>>

\* A record built from the annotation "5.6.7.8,1.2.3.4" of an object that also
\* has a spec address and a valid status address.
C2_Witness ==
    /\ last.called /\ last.err = "none"
    /\ \E i \in 1..Len(last.filtered) :
           /\ TargetKey \in DOMAIN last.filtered[i].annotations
           /\ last.filtered[i].specAddress = Addr9
           /\ last.filtered[i].statusAddress = Addr10
           /\ \E j \in RecordsFor(last.filtered[i]) :
                  Range(last.endpoints[j].targets) = {Addr1, Addr5}

\* C3: no returned record has an empty target list, and no object reaches the
\* construction of its record without a target: everything that reaches it has
\* passed the gate, and gets a record.
C3_NoEmptyTargets ==
    last.called =>
        /\ \A j \in 1..Len(last.endpoints) : Len(last.endpoints[j].targets) >= 1
        /\ \A c \in 1..Len(last.built) : Len(last.built[c].targets) >= 1
        /\ Len(last.endpoints) = Len(last.built)

\* A call over an object without annotation and spec address, whose only
\* target is its status address, beside an object the gate excluded.
C3_Witness ==
    /\ last.called /\ last.err = "none"
    /\ Len(last.filtered) = 2 /\ Len(last.endpoints) = 1
    /\ last.endpoints[1].targets = <<Addr10>>
    /\ \E i \in 1..2 : /\ last.filtered[i].statusAddress = EmptyStr
                       /\ last.filtered[i].specAddress = EmptyStr
                       /\ TargetKey \notin DOMAIN last.filtered[i].annotations

C4_Sorted ==
    last.called =>
        \A j \in 1..Len(last.endpoints) :
            LET targets == last.endpoints[j].targets IN
            \A a, b \in 1..Len(targets) : a < b => ~StrLess(targets[b], targets[a])

C4_Repeatable ==
    (last.called /\ last'.called /\ ~last.listErr /\ ~last'.listErr
     /\ last'.snapshot = last.snapshot)
    => (last'.endpoints = last.endpoints /\ last'.err = last.err /\ cache' = cache)

C5_FilterRestriction ==
    (last.called /\ last.err = "none") =>
        /\ Range(last.filtered) = {v \in Range(last.converted) : MatchesFilter(v)}
        /\ Cardinality(Range(last.filtered)) = Len(last.filtered)
        /\ \A a, b \in 1..Len(last.filtered) :
               a < b => \E p, q \in 1..Len(last.converted) :
                            /\ p < q
                            /\ last.converted[p] = last.filtered[a]
                            /\ last.converted[q] = last.filtered[b]
        /\ \A p \in 1..Len(last.converted) :
               ~MatchesFilter(last.converted[p]) => RecordsFor(last.converted[p]) = {}
        /\ annotationFilter = FilterEmpty => last.filtered = last.converted

\* Filter "environment=prod" over an object annotated environment=dev, which is
\* removed, and one annotated environment=prod, which stays and gets a record.
C5_Witness ==
    /\ last.called /\ last.err = "none" /\ annotationFilter = FilterEnvProd
    /\ Len(last.converted) = 2 /\ Len(last.filtered) = 1 /\ Len(last.endpoints) = 1
    /\ \E p \in 1..2 : /\ EnvKey \in DOMAIN last.converted[p].annotations
                       /\ last.converted[p].annotations[EnvKey] = ValDev
                       /\ ~FailsValidityGate(last.converted[p])

\* C6: the constructor returns no source for a malformed filter expression,
\* and no Endpoints call is the first to report the filter's syntax error.
C6_MalformedFilterFailsConstruct ==
    /\ pc = "ready" => FilterWellFormed
    /\ last.err # "failed to filter VirtualServers"

C7_SourceOnlyWhenSynced ==
    /\ pc = "ready" => synced
    /\ (ctxDone /\ ~synced) => pc \in {"new", "waiting", "syncFailed"}

C8_OnlyListOrConversionErrors ==
    (last.called /\ last.err # "none") =>
        \/ last.listErr
        \/ \E i \in 1..Len(last.snapshot) : ~Convertible(last.snapshot[i])

C9_Counts ==
    \A i \in 1..Len(handlers) :
        LET h == handlers[i] IN
        IF h.origin = "AddEventHandler"
        THEN h.invoked + h.pending = h.replayed + (events - h.regAt)
        ELSE h.invoked = 0 /\ h.pending = 0

C9_AllDelivered == \A i \in 1..Len(handlers) : handlers[i].pending = 0

\* C9: every callback registered through AddEventHandler is run once for each
\* event observed since its registration (beside the adds the informer replays
\* to it for the objects stored when it registered), each of several callbacks
\* on its own; the constructor's handler runs nothing; every notification is
\* eventually delivered.
C9_EventRelay == [](C9_Counts) /\ []<>(C9_AllDelivered)

\* Two callbacks registered on an empty store, one event observed, each
\* callback run once.
C9_Witness ==
    /\ Len(handlers) = 3 /\ events = 1
    /\ \A i \in 2..3 : /\ handlers[i].replayed = 0 /\ handlers[i].regAt = 0
                       /\ handlers[i].invoked = 1 /\ handlers[i].pending = 0

\* C10: when an object of the snapshot cannot be converted, the call returns an
\* error and no record, also for the objects that can be converted.
C10_ConversionAbortsBatch ==
    (last.called /\ ~last.listErr
     /\ \E i \in 1..Len(last.snapshot) : ~Convertible(last.snapshot[i]))
    => /\ last.err \in {"could not convert", "conversion"}
       /\ last.endpoints = <<>>

\* A failed call over an object that cannot be converted and an object that
\* would have got a record.
C10_Witness ==
    /\ last.called /\ last.err = "conversion" /\ last.endpoints = <<>>
    /\ \E i \in 1..Len(last.snapshot) :
           /\ Convertible(last.snapshot[i])
           /\ ~FailsValidityGate(last.snapshot[i])
           /\ i = 1

=============================================================================
